---- MODULE Spec2Model ----
(***************************************************************************)
(* Model of visualise_cameras.py: three extractors of (latitude, longitude) *)
(* pairs from the page texts of a PDF, and the command-line entry point.    *)
(*                                                                          *)
(* A text is a sequence of one-character strings.  A decimal number is kept *)
(* exactly, as its integer part and the sequence of its fractional digits;  *)
(* a stored row is a pair of integers in units of 10^-6 degree.             *)
(***************************************************************************)
EXTENDS Integers, Sequences, FiniteSets, TLC

VARIABLES hasArg, pdf, pc, exitStatus, stderr, df_coords, mapFile, resWhole, resLine

vars == <<hasArg, pdf, pc, exitStatus, stderr, df_coords, mapFile, resWhole, resLine>>

(***************************************************************************)
(* Characters                                                               *)
(***************************************************************************)
SP  == " "
TAB == "\t"
CR  == "\r"
NL  == "\n"
FF  == "\f"

Digit == {"0", "1", "2", "3", "4", "5", "6", "7", "8", "9"}

DigitVal(c) ==
    CASE c = "0" -> 0 [] c = "1" -> 1 [] c = "2" -> 2 [] c = "3" -> 3
      [] c = "4" -> 4 [] c = "5" -> 5 [] c = "6" -> 6 [] c = "7" -> 7
      [] c = "8" -> 8 [] c = "9" -> 9

\* [ \t\r\n]+ of the whole-text pattern and [ ]+ of the line pattern
WholeSep == {SP, TAB, CR, NL}
\* the line pattern written with the separator class of the whole-text one
LineSep_Any == {SP, TAB, CR, NL}
LineSep  == {SP}

\* the characters str.strip() removes, as far as they can occur here
PyWhitespace == {SP, TAB, CR, NL, FF}

LatLead == {"3", "4"}
LonLead == {"6"}
DecSep  == {".", ","}

(***************************************************************************)
(* Regular-expression matching                                              *)
(***************************************************************************)
\* index just past the longest run of characters of cls that starts at i
RECURSIVE RunEnd(_, _, _)
RunEnd(t, i, cls) ==
    IF i <= Len(t) /\ t[i] \in cls THEN RunEnd(t, i + 1, cls) ELSE i

\* as NumEnd, for a pattern whose separator class is repeated: [.,]+
NumEnd_SepRun(t, i, lead) ==
    IF /\ i + 3 <= Len(t)
       /\ t[i] \in lead
       /\ t[i + 1] \in Digit
       /\ t[i + 2] \in DecSep
       /\ RunEnd(t, i + 2, DecSep) <= Len(t)
       /\ t[RunEnd(t, i + 2, DecSep)] \in Digit
    THEN RunEnd(t, RunEnd(t, i + 2, DecSep), Digit)
    ELSE 0

\* lead [0-9] [.,] [0-9]+ at i : index just past the token, 0 if none.
\* The digit run is taken whole: what follows it in the pattern is never a
\* digit, so giving digits back cannot turn a failure into a match.
NumEnd(t, i, lead) ==
    IF /\ i + 3 <= Len(t)
       /\ t[i] \in lead
       /\ t[i + 1] \in Digit
       /\ t[i + 2] \in DecSep
       /\ t[i + 3] \in Digit
    THEN RunEnd(t, i + 3, Digit)
    ELSE 0

NoMatch == [end |-> 0, lat |-> <<>>, lon |-> <<>>]

\* ([3-4][0-9][.,][0-9]+) sep+ ([6][0-9][.,][0-9]+) anchored at i
MatchAt(t, i, sep) ==
    LET e1 == NumEnd(t, i, LatLead)
        w  == IF e1 = 0 THEN 0 ELSE RunEnd(t, e1, sep)
        e2 == IF e1 = 0 \/ w = e1 THEN 0 ELSE NumEnd(t, w, LonLead)
    IN  IF e2 = 0 THEN NoMatch
        ELSE [end |-> e2, lat |-> SubSeq(t, i, e1 - 1), lon |-> SubSeq(t, w, e2 - 1)]

\* pattern.findall(text): leftmost matches, left to right, not overlapping
RECURSIVE FindAllFrom(_, _, _)
FindAllFrom(t, i, sep) ==
    IF i > Len(t) THEN <<>>
    ELSE LET m == MatchAt(t, i, sep)
         IN  IF m.end = 0 THEN FindAllFrom(t, i + 1, sep)
             ELSE <<m>> \o FindAllFrom(t, m.end, sep)

FindAll(t, sep) == FindAllFrom(t, 1, sep)

\* index of the first c in t at or after i, Len(t) + 1 if there is none
RECURSIVE IndexOf(_, _, _)
IndexOf(t, i, c) ==
    IF i > Len(t) \/ t[i] = c THEN i ELSE IndexOf(t, i + 1, c)

\* t.split(c)
RECURSIVE SplitOn(_, _)
SplitOn(t, c) ==
    LET e == IndexOf(t, 1, c)
    IN  IF e > Len(t) THEN <<t>>
        ELSE <<SubSeq(t, 1, e - 1)>> \o SplitOn(SubSeq(t, e + 1, Len(t)), c)

\* re.match(r'^[0-9]{4}', line.strip())
StartsWithCameraNumber(line) ==
    LET s == RunEnd(line, 1, PyWhitespace)
    IN  /\ s + 3 <= Len(line)
        /\ \A k \in s .. s + 3 : line[k] \in Digit

(***************************************************************************)
(* Numbers                                                                  *)
(***************************************************************************)
\* str.replace(" ", "") and str.replace(",", ".")
RemoveSpaces(tok) == SelectSeq(tok, LAMBDA c : c # SP)
CommaToDot(tok)   == [k \in 1 .. Len(tok) |-> IF tok[k] = "," THEN "." ELSE tok[k]]

RECURSIVE DigitsValue(_)
DigitsValue(ds) ==
    IF ds = <<>> THEN 0
    ELSE 10 * DigitsValue(SubSeq(ds, 1, Len(ds) - 1)) + DigitVal(ds[Len(ds)])

ValueError == [ok |-> FALSE, ip |-> 0, frac |-> <<>>]

\* float(s) for s over digits and '.': digits, at most one point, and at
\* least one digit; anything else raises ValueError
Float(s) ==
    LET e1 == RunEnd(s, 1, Digit)
        e2 == IF e1 <= Len(s) /\ s[e1] = "." THEN RunEnd(s, e1 + 1, Digit) ELSE e1
    IN  IF e2 = Len(s) + 1 /\ (e1 > 1 \/ e2 > e1 + 1)
        THEN [ok |-> TRUE,
              ip |-> DigitsValue(SubSeq(s, 1, e1 - 1)),
              frac |-> SubSeq(s, e1 + 1, Len(s))]
        ELSE ValueError

AllZero(ds) == \A k \in 1 .. Len(ds) : ds[k] = "0"

\* n <= v and v <= n for an integer n
GeInt(v, n) == v.ip >= n
LeInt(v, n) == v.ip < n \/ (v.ip = n /\ AllZero(v.frac))

LatMin == 38
LatMax == 43
LonMin == 60
LonMax == 74

\* the filter with the latitude test left out
InBox_LonOnly(lat, lon) ==
    GeInt(lon, LonMin) /\ LeInt(lon, LonMax)

\* 38 <= lat <= 43 and 60 <= lon <= 74
InBox(lat, lon) ==
    /\ GeInt(lat, LatMin) /\ LeInt(lat, LatMax)
    /\ GeInt(lon, LonMin) /\ LeInt(lon, LonMax)

Decimals == 6
\* one degree, in the unit of the stored rows
Unit == 10 ^ Decimals

\* round(v, 6), in units of 10^-6.  A tail of exactly one half is rounded to
\* the even neighbour; CPython decides that case on the stored double, and no
\* text drawn below has such a tail.
Round6(v) ==
    LET n    == Len(v.frac)
        kept == [k \in 1 .. Decimals |-> IF k <= n THEN v.frac[k] ELSE "0"]
        tail == IF n > Decimals THEN SubSeq(v.frac, Decimals + 1, n) ELSE <<>>
        base == v.ip * Unit + DigitsValue(kept)
        rest == IF tail = <<>> THEN <<>> ELSE SubSeq(tail, 2, Len(tail))
        up   == /\ tail # <<>>
                /\ \/ DigitVal(tail[1]) > 5
                   \/ DigitVal(tail[1]) = 5 /\ ~AllZero(rest)
                   \/ DigitVal(tail[1]) = 5 /\ AllZero(rest) /\ base % 2 = 1
    IN  IF up THEN base + 1 ELSE base

(***************************************************************************)
(* The working set and the returned table                                   *)
(***************************************************************************)
Row(lat, lon) == <<Round6(lat), Round6(lon)>>

\* a list in place of the set: coords.append(row)
SetAdd_Append(coords, row) == Append(coords, row)

\* coords.add(row): the working set, kept in order of first insertion
SetAdd(coords, row) ==
    IF \E k \in 1 .. Len(coords) : coords[k] = row THEN coords
    ELSE Append(coords, row)

\* the order of sort_values(["lat"])
RowLess_LatOnly(a, b) == a[1] < b[1]

\* the order of sort_values(["lat", "lon"])
RowLess(a, b) == a[1] < b[1] \/ (a[1] = b[1] /\ a[2] < b[2])

\* sort_values(["lat", "lon"])
RECURSIVE InsertRow(_, _)
InsertRow(r, rows) ==
    IF rows = <<>> THEN <<r>>
    ELSE IF RowLess(rows[1], r) THEN <<rows[1]>> \o InsertRow(r, Tail(rows))
    ELSE <<r>> \o rows

RECURSIVE SortValues(_)
SortValues(rows) ==
    IF rows = <<>> THEN <<>> ELSE InsertRow(rows[1], SortValues(Tail(rows)))

\* pd.DataFrame(coords, ...): the rows in the iteration order of the set,
\* which is any order of its elements
Orders(coords) ==
    LET n == Len(coords)
    IN  { [k \in 1 .. n |-> coords[p[k]]] :
            p \in { q \in [1 .. n -> 1 .. n] : \A a, b \in 1 .. n : a # b => q[a] # q[b] } }

\* the tables the last line of an extractor can return for a working set
Tables(coords) == { SortValues(rows) : rows \in Orders(coords) }

(***************************************************************************)
(* The extractors                                                           *)
(***************************************************************************)
NoCoords == [raised |-> FALSE, coords |-> <<>>]

\* the page loop with break in place of continue: the pages before the first
\* page without text
PagesToScan_Break(pages) ==
    SubSeq(pages, 1, IndexOf(pages, 1, <<>>) - 1)

\* for page in pdf.pages: ... if not text: continue
PagesToScan(pages) == SelectSeq(pages, LAMBDA text : text # <<>>)

\* body of the match loop of extract_coords; float() is not guarded
CoordsStep(acc, m) ==
    IF acc.raised THEN acc
    ELSE LET lat == Float(CommaToDot(RemoveSpaces(m.lat)))
             lon == Float(CommaToDot(RemoveSpaces(m.lon)))
         IN  IF ~lat.ok \/ ~lon.ok THEN [acc EXCEPT !.raised = TRUE]
             ELSE IF InBox(lat, lon)
                  THEN [acc EXCEPT !.coords = SetAdd(acc.coords, Row(lat, lon))]
                  ELSE acc

\* CameraStep without replace(",", "."): float() of a token with a comma
\* raises ValueError, which is caught
CameraStep_NoReplace(acc, m) ==
    LET lat == Float(m.lat)
        lon == Float(m.lon)
    IN  IF ~lat.ok \/ ~lon.ok THEN acc
        ELSE IF InBox(lat, lon)
             THEN [acc EXCEPT !.coords = SetAdd(acc.coords, Row(lat, lon))]
             ELSE acc

\* body of the match loops of the other two extractors; a ValueError is
\* caught and the match skipped
CameraStep(acc, m) ==
    LET lat == Float(CommaToDot(m.lat))
        lon == Float(CommaToDot(m.lon))
    IN  IF ~lat.ok \/ ~lon.ok THEN acc
        ELSE IF InBox(lat, lon)
             THEN [acc EXCEPT !.coords = SetAdd(acc.coords, Row(lat, lon))]
             ELSE acc

RECURSIVE CoordsFold(_, _)
CoordsFold(acc, ms) ==
    IF ms = <<>> THEN acc ELSE CoordsFold(CoordsStep(acc, ms[1]), Tail(ms))

RECURSIVE CameraFold(_, _)
CameraFold(acc, ms) ==
    IF ms = <<>> THEN acc ELSE CameraFold(CameraStep(acc, ms[1]), Tail(ms))

\* the matches of the line pattern in the lines that start with a camera number
RECURSIVE CameraLineMatches(_)
CameraLineMatches(lines) ==
    IF lines = <<>> THEN <<>>
    ELSE (IF StartsWithCameraNumber(lines[1]) THEN FindAll(lines[1], LineSep) ELSE <<>>)
         \o CameraLineMatches(Tail(lines))

RECURSIVE CoordsPages(_, _)
CoordsPages(acc, texts) ==
    IF texts = <<>> THEN acc
    ELSE CoordsPages(CoordsFold(acc, FindAll(texts[1], WholeSep)), Tail(texts))

RECURSIVE CameraPages(_, _)
CameraPages(acc, texts) ==
    IF texts = <<>> THEN acc
    ELSE CameraPages(CameraFold(acc, CameraLineMatches(SplitOn(texts[1], NL))), Tail(texts))

\* the combined extractor without its whole-text pass
RECURSIVE CombinedPages_CameraOnly(_, _)
CombinedPages_CameraOnly(acc, texts) ==
    IF texts = <<>> THEN acc
    ELSE CombinedPages_CameraOnly(
             CameraFold(acc, CameraLineMatches(SplitOn(texts[1], NL))), Tail(texts))

RECURSIVE CombinedPages(_, _)
CombinedPages(acc, texts) ==
    IF texts = <<>> THEN acc
    ELSE LET a1 == CameraFold(acc, CameraLineMatches(SplitOn(texts[1], NL)))
             a2 == CameraFold(a1, FindAll(texts[1], WholeSep))
         IN  CombinedPages(a2, Tail(texts))

Unset == [status |-> "unset", exc |-> "", rows |-> <<>>]
Raised(e) == [status |-> "raised", exc |-> e, rows |-> <<>>]
Returned(rows) == [status |-> "ok", exc |-> "", rows |-> rows]

\* what a call of an extractor can produce, given what its page loop built
Outcomes(file, acc) ==
    IF ~file.exists THEN {Raised("FileNotFoundError")}
    ELSE IF acc.raised THEN {Raised("ValueError")}
    ELSE { Returned(rows) : rows \in Tables(acc.coords) }

extract_coords(file) ==
    Outcomes(file, CoordsPages(NoCoords, PagesToScan(file.pages)))

extract_coords_by_camera_numbers(file) ==
    Outcomes(file, CameraPages(NoCoords, PagesToScan(file.pages)))

extract_coords_combined(file) ==
    Outcomes(file, CombinedPages(NoCoords, PagesToScan(file.pages)))

(***************************************************************************)
(* The documents                                                            *)
(***************************************************************************)
\* A document is the text of its pages, a form feed ending each page but the
\* last; it is put together from at most MaxPieces pieces of a vocabulary.
\* A page without a text layer has the empty text.
MaxPieces == 4

GeneralPieces ==
    { <<"0", "0", "1", "2", SP>>,
      <<"4", "1", ",", "5", SP>>,
      <<"4", "1", ".", "5", NL>>,
      <<"6", "9", ",", "1", FF>>,
      <<"6", "1", ".", "5", NL>>,
      <<FF>> }

BoxPieces ==
    { <<"0", "0", "1", "2", SP>>,
      <<"3", "0", ".", "0", SP>>,
      <<"3", "8", ".", "0", SP>>,
      <<"4", "3", ".", "0", SP>>,
      <<"4", "3", ".", "0", "0", "0", "0", "0", "0", "1", SP>>,
      <<"6", "9", ".", "0", NL>> }

TokensPieces ==
    { <<"0", "0", "1", "2", SP>>,
      <<"4", "1", ".", ",", "5", SP>>,
      <<"4", "1", ",", "5", SP>>,
      <<"6", "9", ",", ".", "1", NL>>,
      <<"6", "9", ",", "1", NL>>,
      <<FF>> }

SpacedPieces ==
    { <<"0", "0", "1", "2", SP>>,
      <<"4", "1", ",", "5", "5", "5", SP, "6", "1", "6", SP>>,
      <<"4", "1", ",", "5", SP>>,
      <<"6", "9", ",", "1", "2", "3", "4", "5", "6">>,
      <<FF>> }

LinesPieces ==
    { <<"0", "0", "1", "2", SP>>,
      <<"1", "2", SP>>,
      <<"4", "1", ",", "5", "5", "5", "6", "1", "6", SP>>,
      <<"4", "1", ",", "5", "5", "5", "6", "1", "6", NL>>,
      <<"4", "1", ",", "5", "5", "5", "6", "1", "6", TAB>>,
      <<"6", "9", ",", "1", "2", "3", "4", "5", "6">> }

DedupPieces ==
    { <<"0", "0", "1", "2", SP>>,
      <<"4", "1", ",", "5", SP>>,
      <<"4", "1", ".", "5", NL>>,
      <<"4", "1", ".", "5", "0", "0", "0", "0", "0", "0", "1", SP>>,
      <<"6", "9", ",", "1", FF>>,
      <<"6", "9", ".", "1", NL>> }

TabsPieces ==
    { <<"0", "0", "1", "2", SP>>,
      <<"4", "1", ".", "5", TAB>>,
      <<"4", "1", ",", "5", SP>>,
      <<"6", "1", ".", "5">>,
      <<NL>> }

RECURSIVE Concat(_)
Concat(ps) == IF ps = <<>> THEN <<>> ELSE ps[1] \o Concat(Tail(ps))

Texts(pieces, n) ==
    { Concat(ps) : ps \in UNION { [1 .. k -> pieces] : k \in 0 .. n } }

NoFile == [exists |-> FALSE, pages |-> <<>>]
File(text) == [exists |-> TRUE, pages |-> SplitOn(text, FF)]

(***************************************************************************)
(* The program                                                              *)
(***************************************************************************)
\* the exit status is <<>> while the script runs and <<n>> once it has exited
NoMap == [written |-> FALSE, markers |-> <<>>]

InitWith(pieces, n) ==
    /\ \/ hasArg = FALSE /\ pdf = NoFile
       \/ hasArg = TRUE /\ pdf = NoFile
       \/ hasArg = TRUE /\ pdf \in { File(t) : t \in Texts(pieces, n) }
    /\ pc = "start"
    /\ exitStatus = <<>>
    /\ stderr = ""
    /\ df_coords = Unset
    /\ mapFile = NoMap
    /\ resWhole = Unset
    /\ resLine = Unset

Init        == InitWith(GeneralPieces, MaxPieces)
InitBox     == InitWith(BoxPieces, MaxPieces)
InitTokens  == InitWith(TokensPieces, MaxPieces)
InitDedup   == InitWith(DedupPieces, MaxPieces)
InitSpaced  == InitWith(SpacedPieces, MaxPieces)
InitLines   == InitWith(LinesPieces, MaxPieces)
\* the vocabulary with the tab is the smallest, and its documents may be one
\* piece longer
InitTabs    == InitWith(TabsPieces, MaxPieces + 1)

\* a call of extract_coords(pdf_path) from outside the script
CallExtractCoords ==
    /\ resWhole' \in extract_coords(pdf)
    /\ UNCHANGED <<hasArg, pdf, pc, exitStatus, stderr, df_coords, mapFile, resLine>>

\* a call of extract_coords_by_camera_numbers(pdf_path) from outside the script
CallExtractByCameraNumbers ==
    /\ resLine' \in extract_coords_by_camera_numbers(pdf)
    /\ UNCHANGED <<hasArg, pdf, pc, exitStatus, stderr, df_coords, mapFile, resWhole>>

\* the command-line checks without the test that the file exists
MainArgs_NoExistsCheck ==
    /\ pc = "start"
    /\ IF ~hasArg
       THEN pc' = "exited" /\ exitStatus' = <<1>> /\ stderr' = "usage"
       ELSE pc' = "checked" /\ UNCHANGED <<exitStatus, stderr>>
    /\ UNCHANGED <<hasArg, pdf, df_coords, mapFile, resWhole, resLine>>

\* the two checks of the command line
MainArgs ==
    /\ pc = "start"
    /\ IF ~hasArg
       THEN pc' = "exited" /\ exitStatus' = <<1>> /\ stderr' = "usage"
       ELSE IF ~pdf.exists
            THEN pc' = "exited" /\ exitStatus' = <<1>> /\ stderr' = "not found"
            ELSE pc' = "checked" /\ UNCHANGED <<exitStatus, stderr>>
    /\ UNCHANGED <<hasArg, pdf, df_coords, mapFile, resWhole, resLine>>

\* df_coords = extract_coords_combined(pdf_path) and the count it prints
MainExtract ==
    /\ pc = "checked"
    /\ df_coords' \in extract_coords_combined(pdf)
    /\ IF df_coords'.status = "raised"
       THEN pc' = "failed" /\ exitStatus' = <<1>> /\ stderr' = "traceback"
       ELSE pc' = "extracted" /\ UNCHANGED <<exitStatus, stderr>>
    /\ UNCHANGED <<hasArg, pdf, mapFile, resWhole, resLine>>

\* make_map(df_coords) on a table with rows: one marker per row, then save
MakeMap ==
    /\ pc = "extracted"
    /\ df_coords.rows # <<>>
    /\ mapFile' = [written |-> TRUE, markers |-> df_coords.rows]
    /\ pc' = "done" /\ exitStatus' = <<0>>
    /\ UNCHANGED <<hasArg, pdf, stderr, df_coords, resWhole, resLine>>

\* make_map on an empty table: the centre is the mean of nothing, and the map
\* library either refuses it or saves a map without markers
MakeMapEmpty ==
    /\ pc = "extracted"
    /\ df_coords.rows = <<>>
    /\ \/ /\ pc' = "failed" /\ exitStatus' = <<1>> /\ stderr' = "traceback"
          /\ UNCHANGED mapFile
       \/ /\ pc' = "done" /\ exitStatus' = <<0>>
          /\ mapFile' = [written |-> TRUE, markers |-> <<>>]
          /\ UNCHANGED stderr
    /\ UNCHANGED <<hasArg, pdf, df_coords, resWhole, resLine>>

Next ==
    \/ CallExtractCoords
    \/ CallExtractByCameraNumbers
    \/ MainArgs
    \/ MainExtract
    \/ MakeMap
    \/ MakeMapEmpty

Spec       == Init /\ [][Next]_vars
SpecBox    == InitBox /\ [][Next]_vars
SpecTokens == InitTokens /\ [][Next]_vars
SpecDedup  == InitDedup /\ [][Next]_vars
SpecSpaced == InitSpaced /\ [][Next]_vars
SpecLines  == InitLines /\ [][Next]_vars
SpecTabs   == InitTabs /\ [][Next]_vars

(***************************************************************************)
(* Properties                                                               *)
(***************************************************************************)
Ok(r) == r.status = "ok"
RowSet(r) == { r.rows[k] : k \in 1 .. Len(r.rows) }
Results == {resWhole, resLine, df_coords}
PageTexts == { pdf.pages[k] : k \in 1 .. Len(pdf.pages) }
LinesOf(t) == LET ls == SplitOn(t, NL) IN { ls[k] : k \in 1 .. Len(ls) }

\* the row a matched pair of tokens stands for, and whether it lies in the box
MatchLat(m) == Float(CommaToDot(m.lat))
MatchLon(m) == Float(CommaToDot(m.lon))
MatchRow(m) == Row(MatchLat(m), MatchLon(m))
MatchInBox(m) == MatchLat(m).ok /\ MatchLon(m).ok /\ InBox(MatchLat(m), MatchLon(m))

\* the pairs the whole-text pattern matches at any position of any page
Candidates ==
    UNION { { MatchAt(t, i, WholeSep) : i \in 1 .. Len(t) } : t \in PageTexts } \ {NoMatch}

\* those that start a page or follow white space: no earlier match can
\* reach over their first character
Isolated(t) ==
    { MatchAt(t, i, WholeSep) :
        i \in { k \in 1 .. Len(t) : k = 1 \/ t[k - 1] \in WholeSep } } \ {NoMatch}

\* the matches of the two scans, as sets
WholeMatches ==
    UNION { { FindAll(t, WholeSep)[k] : k \in 1 .. Len(FindAll(t, WholeSep)) } : t \in PageTexts }
CameraMatches ==
    UNION { LET ms == CameraLineMatches(SplitOn(t, NL))
            IN  { ms[k] : k \in 1 .. Len(ms) } : t \in PageTexts }

\* the latitude a token spells lies outside 38 .. 43, read off its characters
OutsideLat(tok) ==
    LET ip == 10 * DigitVal(tok[1]) + DigitVal(tok[2])
    IN  \/ ip < 38
        \/ ip > 43
        \/ ip = 43 /\ \E k \in 4 .. Len(tok) : tok[k] # "0"

\* C1: every row an extractor returns has 38 <= latitude <= 43 and
\* 60 <= longitude <= 74, and a document whose matched pairs all lie outside
\* the box yields no row, however often they occur.
C1_BoundingBox ==
    \A r \in Results : Ok(r) =>
        /\ \A k \in 1 .. Len(r.rows) :
              /\ 38000000 <= r.rows[k][1] /\ r.rows[k][1] <= 43000000
              /\ 60000000 <= r.rows[k][2] /\ r.rows[k][2] <= 74000000
        /\ (\A m \in Candidates : OutsideLat(m.lat)) => r.rows = <<>>

C1_Witness ==
    /\ Ok(resWhole) /\ Ok(df_coords)
    /\ \E m \in WholeMatches : m.lat = <<"3", "0", ".", "0">> /\ m.lon = <<"6", "9", ".", "0">>
    /\ resWhole.rows # <<>>
    /\ df_coords.rows = resWhole.rows

\* C2: no table has two equal rows, and every matched pair inside the box has
\* exactly one row, whatever its spelling and however often it is matched.
C2_Deduplication ==
    /\ \A r \in Results : Ok(r) =>
          \A i, j \in 1 .. Len(r.rows) : i # j => r.rows[i] # r.rows[j]
    /\ \A r \in {resWhole, df_coords} : Ok(r) =>
          \A m \in WholeMatches : MatchInBox(m) =>
              Cardinality({ k \in 1 .. Len(r.rows) : r.rows[k] = MatchRow(m) }) = 1
    /\ Ok(resLine) =>
          \A m \in CameraMatches : MatchInBox(m) =>
              Cardinality({ k \in 1 .. Len(resLine.rows) : resLine.rows[k] = MatchRow(m) }) = 1

C2_Witness ==
    /\ Ok(resWhole)
    /\ Len(pdf.pages) >= 2
    /\ \E m1, m2 \in WholeMatches :
          /\ m1.lat # m2.lat
          /\ Len(m1.lat) > 9
          /\ MatchRow(m1) = MatchRow(m2)
    /\ Len(resWhole.rows) = 1

\* a number written with spaces inside it: without them it is one token
SpacedNumber(tok, lead) ==
    /\ tok # <<>>
    /\ tok[1] # SP /\ tok[Len(tok)] # SP
    /\ \A k \in 1 .. Len(tok) : tok[k] \in Digit \cup DecSep \cup {SP}
    /\ NumEnd(RemoveSpaces(tok), 1, lead) = Len(RemoveSpaces(tok)) + 1

\* C3: a page that is a latitude and a longitude, either written with ',' or
\* with spaces inside the number, yields the row of the same numbers written
\* with '.' and without spaces ("41,555 616" is latitude 41.555616).
C3_Normalization ==
    \A t \in PageTexts : \A j \in 2 .. Len(t) - 1 :
        ( /\ t[j] \in WholeSep
          /\ SpacedNumber(SubSeq(t, 1, j - 1), LatLead)
          /\ SpacedNumber(SubSeq(t, j + 1, Len(t)), LonLead) )
        => \A r \in {resWhole, df_coords} : Ok(r) =>
              Row(Float(CommaToDot(RemoveSpaces(SubSeq(t, 1, j - 1)))),
                  Float(CommaToDot(RemoveSpaces(SubSeq(t, j + 1, Len(t))))))
                \in RowSet(r)

Ascending(rows) ==
    \A i, j \in 1 .. Len(rows) : i < j =>
        \/ rows[i][1] < rows[j][1]
        \/ rows[i][1] = rows[j][1] /\ rows[i][2] <= rows[j][2]

C5_NoParseFailure ==
    /\ \A r \in Results : r.exc # "ValueError"
    /\ \A r \in {resWhole, df_coords} : Ok(r) =>
          \A t \in PageTexts : \A m \in Isolated(t) :
              MatchInBox(m) => MatchRow(m) \in RowSet(r)

C5_Witness ==
    /\ Ok(resWhole) /\ Ok(resLine) /\ Ok(df_coords)
    /\ \E t \in PageTexts : \E i, j \in 1 .. Len(t) :
          /\ i < j
          /\ t[i] \in DecSep /\ t[i + 1] \in DecSep
          /\ (j = 1 \/ t[j - 1] \in WholeSep)
          /\ MatchAt(t, j, WholeSep) # NoMatch
          /\ MatchRow(MatchAt(t, j, WholeSep)) \in RowSet(resWhole)

\* the first four characters of the line after its leading white space are digits
LeadingCameraNumber(line) ==
    \E s \in 1 .. Len(line) :
        /\ \A k \in 1 .. s - 1 : line[k] \in PyWhitespace
        /\ s + 3 <= Len(line)
        /\ \A k \in s .. s + 3 : line[k] \in Digit

SplitPage ==
    <<"4", "1", ",", "5", "5", "5", "6", "1", "6", NL,
      "6", "9", ",", "1", "2", "3", "4", "5", "6">>
NumberedPage ==
    <<"0", "0", "1", "2", SP, "4", "1", ",", "5", "5", "5", "6", "1", "6", SP,
      "6", "9", ",", "1", "2", "3", "4", "5", "6">>
ScenarioRow == <<41555616, 69123456>>

\* C6: every row of the line-anchored scan comes from one line that starts
\* with a camera number and holds the two tokens with only spaces between
\* them; the pair split over two lines without a number is returned by the
\* whole-text scan and not by the line-anchored one, and the pair on a line
\* starting with 0012 is returned by the line-anchored scan.
C6_LineAnchored ==
    /\ Ok(resLine) =>
          \A row \in RowSet(resLine) :
              \E t \in PageTexts : \E line \in LinesOf(t) : \E i \in 1 .. Len(line) :
                  /\ LeadingCameraNumber(line)
                  /\ MatchAt(line, i, {SP}) # NoMatch
                  /\ MatchRow(MatchAt(line, i, {SP})) = row
    /\ pdf.pages = <<SplitPage>> =>
          /\ Ok(resWhole) => resWhole.rows = <<ScenarioRow>>
          /\ Ok(resLine) => resLine.rows = <<>>
    /\ (pdf.pages = <<NumberedPage>> /\ Ok(resLine)) => resLine.rows = <<ScenarioRow>>

C6_Witness ==
    /\ pdf.pages = <<SplitPage>>
    /\ Ok(resWhole) /\ Ok(resLine)
    /\ resWhole.rows = <<ScenarioRow>>

\* C7: the rows of the combined extractor are the rows of the whole-text scan
\* together with the rows of the line-anchored scan, each once.
C7_CombinedIsUnion ==
    (Ok(resWhole) /\ Ok(resLine) /\ Ok(df_coords)) =>
        /\ RowSet(df_coords) = RowSet(resWhole) \cup RowSet(resLine)
        /\ Len(df_coords.rows) = Cardinality(RowSet(resWhole) \cup RowSet(resLine))

C7_Witness ==
    /\ Ok(resWhole) /\ Ok(resLine) /\ Ok(df_coords)
    /\ ~(RowSet(resLine) \subseteq RowSet(resWhole))
    /\ ~(RowSet(resWhole) \subseteq RowSet(resLine))
    /\ Len(df_coords.rows) = 2

\* C8: without a path argument, or with a path that does not exist, the
\* script goes from its start to an exit with status 1 and a message; the
\* extractor is not called and no map is written.
C8_InvocationErrors ==
    (~hasArg \/ ~pdf.exists) =>
        /\ pc \in {"start", "exited"}
        /\ df_coords = Unset
        /\ mapFile = NoMap
        /\ pc = "exited" => exitStatus = <<1>> /\ stderr \in {"usage", "not found"}
        /\ pc = "start" => exitStatus = <<>> /\ stderr = ""

C8_Witness ==
    /\ hasArg /\ ~pdf.exists
    /\ pc = "exited" /\ exitStatus = <<1>> /\ stderr = "not found"

\* C9: no extractor raises on a document that exists; pages without text add
\* nothing and the pages after them are scanned, so that every pair in the
\* box that starts a page or follows white space is returned; a document
\* without any matching pair yields the empty table.
C9_EmptyPages ==
    /\ pdf.exists => \A r \in Results : r.status # "raised"
    /\ \A r \in {resWhole, df_coords} : Ok(r) =>
          \A p \in 1 .. Len(pdf.pages) : \A m \in Isolated(pdf.pages[p]) :
              MatchInBox(m) => MatchRow(m) \in RowSet(r)
    /\ Candidates = {} => \A r \in Results : Ok(r) => r.rows = <<>>

C9_Witness ==
    /\ Len(pdf.pages) >= 2
    /\ pdf.pages[1] = <<>>
    /\ Ok(resWhole) /\ resWhole.rows # <<>>
    /\ Ok(df_coords) /\ df_coords.rows = resWhole.rows

NoTabOrCR == \A t \in PageTexts : \A k \in 1 .. Len(t) : t[k] \notin {TAB, CR}

\* C10 as stated: the line-anchored pass never adds a pair, so the combined
\* extractor returns the table of extract_coords.
C10_LineNeverAdds ==
    /\ (Ok(resWhole) /\ Ok(df_coords)) => df_coords.rows = resWhole.rows
    /\ (Ok(resWhole) /\ Ok(resLine)) => RowSet(resLine) \subseteq RowSet(resWhole)

\* C10, amended: on a document without tab and carriage return the
\* line-anchored pass adds no pair and the combined extractor returns the
\* table of extract_coords; on every document the combined table holds the
\* rows of extract_coords.
C10_LineNeverAddsWithoutTabs ==
    /\ (Ok(resWhole) /\ Ok(df_coords)) => RowSet(resWhole) \subseteq RowSet(df_coords)
    /\ NoTabOrCR =>
          /\ (Ok(resWhole) /\ Ok(df_coords)) => df_coords.rows = resWhole.rows
          /\ (Ok(resWhole) /\ Ok(resLine)) => RowSet(resLine) \subseteq RowSet(resWhole)

C10_Witness ==
    /\ NoTabOrCR
    /\ Ok(resWhole) /\ Ok(resLine) /\ Ok(df_coords)
    /\ resLine.rows # <<>>
    /\ df_coords.rows = resWhole.rows

====
